---- MODULE Spec2Model ----
(***************************************************************************)
(* bread-scheme: the byte source (Input), the reader (read) and the        *)
(* printers, as a state machine.  A byte is its ASCII code; a Rust         *)
(* Option<u8> is the empty sequence (None) or a one-element sequence       *)
(* (Some(c)); a Vec is a sequence; an Object is a record with a tag.       *)
(***************************************************************************)
EXTENDS Integers, Sequences, FiniteSets, TLC

VARIABLES
    shape,      \* how the stream was drawn: free bytes, or a list of elements
    input,      \* the bytes of the stream handed to Input::new
    inp,        \* parser.rs Input: [stream, pos, buf]
    stack,      \* call stack of read: one frame [st, v] per active call, innermost last
    pc,         \* "reading" | "returned" | "panicked"
    result,     \* the Handle the outermost read returned
    err,        \* the panic that ended the read
    rets,       \* the values returned by the calls of read so far, in order of return
    phase,      \* 1: reading the stream; 2: reading the text a printer emitted;
                \* 3: the loop of main; 4: make_int on an integer token
    first,      \* phase 2: the value the first read returned
    printer,    \* phase 2: the printer that emitted the text
    chunks,     \* the stream positions at which the BufReader's buffer runs empty
    stdout,     \* phase 3: the bytes main has printed
    reads,      \* phase 3: the values read returned to main, in order
    hsrc,       \* byte-source harness: parser.rs Input
    hsrc2,      \* byte-source harness: input.rs Input
    hout,       \* harness: outstanding pushed-back bytes, most recent first
    hfresh,     \* harness: number of bytes taken from the stream
    hlast,      \* harness: what the last operation did on each Input
    hops        \* harness: number of operations applied

vars == <<shape, input, inp, stack, pc, result, err, rets, phase, first, printer,
          chunks, stdout, reads,
          hsrc, hsrc2, hout, hfresh, hlast, hops>>

readerVars == <<shape, input, inp, stack, pc, result, err, rets, phase, first, printer,
                stdout, reads>>
harnessVars == <<hsrc, hsrc2, hout, hfresh, hlast, hops>>

-----------------------------------------------------------------------------
(* Bytes *)

TAB == 9
NL == 10
SP == 32
DQUOTE == 34
HASH == 35
QUOTE == 39
LPAREN == 40
RPAREN == 41
PLUS == 43
MINUS == 45
DOT == 46
ZERO == 48
NINE == 57
BACKSLASH == 92
LOWER_A == 97
LOWER_B == 98

None == <<>>
Some(c) == <<c>>

-----------------------------------------------------------------------------
(* types.rs: Object and the Handle constructors *)

new_nil == [tag |-> "Nil"]
new_cons(car, cdr) == [tag |-> "Cons", car |-> car, cdr |-> cdr]
new_symbol(value) == [tag |-> "Symbol", text |-> value]
new_int64(value) == [tag |-> "Int64", val |-> value]
new_string(value) == [tag |-> "String", text |-> value]
new_eof == [tag |-> "Eof"]

NoResult == [tag |-> "NoResult"]

-----------------------------------------------------------------------------
(* parser.rs: Input.  buf[1], buf[2] are the Rust buf[0], buf[1]. *)

Input_new(stream) == [stream |-> stream, pos |-> 0, buf |-> <<None, None>>]

\* Input::get handing out the older of two outstanding bytes
Input_get_oldest(i) ==
    IF i.buf[2] # None
    THEN [c |-> i.buf[2], inp |-> [i EXCEPT !.buf = <<i.buf[1], None>>]]
    ELSE IF i.buf[1] # None
    THEN [c |-> i.buf[1], inp |-> [i EXCEPT !.buf = <<None, None>>]]
    ELSE IF i.pos < Len(i.stream)
         THEN [c |-> Some(i.stream[i.pos + 1]), inp |-> [i EXCEPT !.pos = @ + 1]]
         ELSE [c |-> None, inp |-> i]

\* Input::get leaving the pushed-back byte in its slot
Input_get_keep(i) ==
    IF i.buf[1] # None
    THEN [c |-> i.buf[1], inp |-> i]
    ELSE IF i.pos < Len(i.stream)
         THEN [c |-> Some(i.stream[i.pos + 1]), inp |-> [i EXCEPT !.pos = @ + 1]]
         ELSE [c |-> None, inp |-> i]

\* Input::get: the result byte c and the Input afterwards.
Input_get(i) ==
    IF i.buf[1] # None
    THEN [c |-> i.buf[1], inp |-> [i EXCEPT !.buf = <<i.buf[2], None>>]]
    ELSE IF i.pos < Len(i.stream)
         THEN [c |-> Some(i.stream[i.pos + 1]), inp |-> [i EXCEPT !.pos = @ + 1]]
         ELSE [c |-> None, inp |-> i]

\* Input::push with the byte queued behind the outstanding one
Input_push_behind(i, byte) ==
    IF i.buf[2] # None
    THEN [ok |-> FALSE, inp |-> i]
    ELSE IF i.buf[1] = None
         THEN [ok |-> TRUE, inp |-> [i EXCEPT !.buf = <<Some(byte), None>>]]
         ELSE [ok |-> TRUE, inp |-> [i EXCEPT !.buf = <<i.buf[1], Some(byte)>>]]

\* Input::push that stores nothing
Input_push_lost(i, byte) == [ok |-> TRUE, inp |-> i]

\* Input::push: ok = FALSE is the panic "Pushing byte onto input with no space."
Input_push(i, byte) ==
    IF i.buf[2] # None
    THEN [ok |-> FALSE, inp |-> i]
    ELSE [ok |-> TRUE, inp |-> [i EXCEPT !.buf = <<Some(byte), i.buf[1]>>]]

\* has_pending that only looks at the stream position
has_pending_unread(i, ch) == i.pos < Len(i.stream)

\* Input::has_pending: a pushed-back byte, or bytes left in the BufReader's
\* buffer; the buffer is empty before the first read and at the end of a chunk
has_pending(i, ch) == i.buf[1] # None \/ i.pos \notin (ch \cup {0})

PushPanic == "Pushing byte onto input with no space."
Unreachable == "internal error: entered unreachable code"

RECURSIVE clear_pending_space(_, _)
\* Input::clear_pending_space: ok = FALSE is a panic, err its message
clear_pending_space(i, ch) ==
    IF ~has_pending(i, ch)
    THEN [ok |-> TRUE, err |-> "", inp |-> i]
    ELSE LET g == Input_get(i) IN
         CASE g.c = Some(SP) -> clear_pending_space(g.inp, ch)
           [] g.c = Some(NL) -> [ok |-> TRUE, err |-> "", inp |-> g.inp]
           [] g.c = None -> [ok |-> FALSE, err |-> Unreachable, inp |-> g.inp]
           [] OTHER ->
                LET p == Input_push(g.inp, g.c[1]) IN
                [ok |-> p.ok, err |-> IF p.ok THEN "" ELSE PushPanic, inp |-> p.inp]

(* input.rs: Input with a count of buffered bytes and a plain byte array. *)

Input2_new(stream) == [stream |-> stream, pos |-> 0, buffered |-> 0, buf |-> <<0, 0>>]

Input2_get(i) ==
    IF i.buffered > 0
    THEN [c |-> Some(i.buf[1]),
          inp |-> [i EXCEPT !.buffered = @ - 1, !.buf = <<i.buf[2], 0>>]]
    ELSE IF i.pos < Len(i.stream)
         THEN [c |-> Some(i.stream[i.pos + 1]), inp |-> [i EXCEPT !.pos = @ + 1]]
         ELSE [c |-> None, inp |-> i]

\* Input::push without the assert: the older byte is overwritten
Input2_push_unchecked(i, byte) ==
    [ok |-> TRUE,
     inp |-> [i EXCEPT !.buffered = IF @ < Len(i.buf) THEN @ + 1 ELSE @,
                       !.buf = <<byte, i.buf[1]>>]]

Input2_push(i, byte) ==
    IF ~(i.buffered < Len(i.buf))
    THEN [ok |-> FALSE, inp |-> i]
    ELSE [ok |-> TRUE,
          inp |-> [i EXCEPT !.buffered = @ + 1, !.buf = <<byte, i.buf[1]>>]]

Input2_has_pending(i, ch) == i.buffered > 0 \/ i.pos \notin (ch \cup {0})

RECURSIVE Input2_clear_pending_space(_, _)

Input2_clear_pending_space(i, ch) ==
    IF ~Input2_has_pending(i, ch)
    THEN [ok |-> TRUE, err |-> "", inp |-> i]
    ELSE LET g == Input2_get(i) IN
         CASE g.c = Some(SP) -> Input2_clear_pending_space(g.inp, ch)
           [] g.c = Some(NL) -> [ok |-> TRUE, err |-> "", inp |-> g.inp]
           [] g.c = None -> [ok |-> FALSE, err |-> Unreachable, inp |-> g.inp]
           [] OTHER ->
                LET p == Input2_push(g.inp, g.c[1]) IN
                [ok |-> p.ok, err |-> IF p.ok THEN "" ELSE PushPanic, inp |-> p.inp]

-----------------------------------------------------------------------------
(* parser.rs: the constructors of the reader *)

QuoteText == <<113, 117, 111, 116, 101>>     \* "quote"

RECURSIVE make_list_fold(_, _, _)
\* the loop over the rest of the reversed iterator, prev = new_cons(e, prev), for vec[k], vec[k-1], ..., vec[1]
make_list_fold(vec, k, prev) ==
    IF k = 0 THEN prev ELSE make_list_fold(vec, k - 1, new_cons(vec[k], prev))

\* make_list iterating the Vec front to back
make_list_forward(vec) ==
    LET n == Len(vec)
        r == [k \in 1..n |-> vec[n + 1 - k]]
    IN IF n < 2 THEN new_nil
       ELSE make_list_fold(r, n - 2, new_cons(r[n - 1], r[n]))

\* make_list of a non-empty Vec (every caller pushes before it calls)
make_list(vec) ==
    LET n == Len(vec) IN
    IF n < 2 THEN new_nil
    ELSE make_list_fold(vec, n - 2, new_cons(vec[n - 1], vec[n]))

\* String::from_utf8 on the bytes of the model: ASCII bytes are themselves, and
\* 0xFF, the only other byte of the model, occurs in no UTF-8 text.
from_utf8_ok(vec) == \A k \in 1..Len(vec) : vec[k] < 128

\* make_symbol without the assert
make_symbol_any(vec) ==
    IF ~from_utf8_ok(vec)
    THEN [ok |-> FALSE, err |-> "Error parsing identifier", val |-> NoResult]
    ELSE [ok |-> TRUE, err |-> "", val |-> new_symbol(vec)]

\* make_symbol: ok = FALSE is a panic (the assert, or from_utf8's Err)
make_symbol(vec) ==
    IF Len(vec) = 1 /\ vec[1] = DOT
    THEN [ok |-> FALSE, err |-> "Parse error: . is not a valid symbol.", val |-> NoResult]
    ELSE IF ~from_utf8_ok(vec)
    THEN [ok |-> FALSE, err |-> "Error parsing identifier", val |-> NoResult]
    ELSE [ok |-> TRUE, err |-> "", val |-> new_symbol(vec)]

make_string(vec) ==
    IF ~from_utf8_ok(vec)
    THEN [ok |-> FALSE, err |-> "Error parsing identifier", val |-> NoResult]
    ELSE [ok |-> TRUE, err |-> "", val |-> new_string(vec)]

\* i64 arithmetic at width w.  TLC's integers are 32 bits wide, so at a width
\* above 31 every number of the model is in range.
InRange(x, w) == IF w > 31 THEN TRUE ELSE (x >= -(2 ^ (w - 1))) /\ (x < 2 ^ (w - 1))

Wrap(x, w) ==
    IF w > 31 THEN x
    ELSE LET m == 2 ^ w
             r == x % m
         IN IF r >= 2 ^ (w - 1) THEN r - m ELSE r

RECURSIVE make_int_loop(_, _, _, _, _)
\* the loop i = i * 10 + (c - '0') over the digits: [i, ovf] after the loop,
\* ovf telling that a multiplication or addition left the range
make_int_loop(v, k, i, ovf, w) ==
    IF k > Len(v) THEN [i |-> i, ovf |-> ovf]
    ELSE LET mul == i * 10
             mulw == Wrap(mul, w)
             add == mulw + (v[k] - ZERO)
         IN make_int_loop(v, k + 1, Wrap(add, w),
                          ovf \/ ~InRange(mul, w) \/ ~InRange(add, w), w)

\* make_int at width w: the set of outcomes.  Arithmetic overflow panics in a
\* build with overflow checks and wraps in a build without them.
make_int_w(v, w) ==
    LET negative == v[1] = MINUS
        digits == IF v[1] \in {MINUS, PLUS} THEN Tail(v) ELSE v
        acc == make_int_loop(digits, 1, 0, FALSE, w)
        neg == -acc.i
        i == IF negative THEN Wrap(neg, w) ELSE acc.i
        ovf == acc.ovf \/ (negative /\ ~InRange(neg, w))
    IN IF ovf
       THEN {[ok |-> FALSE, err |-> "arithmetic overflow", val |-> NoResult],
             [ok |-> TRUE, err |-> "", val |-> new_int64(i)]}
       ELSE {[ok |-> TRUE, err |-> "", val |-> new_int64(i)]}

IntBits == 64

make_int(v) == make_int_w(v, IntBits)

is_symbol_char(byte) ==
    \/ byte \in 97..122
    \/ byte \in 65..90
    \/ byte \in 48..57
    \/ byte \in {33, 36, 37, 38, 42, 43, 45, 46, 47, 58, 60, 61, 62, 63, 64, 94, 95, 126}

-----------------------------------------------------------------------------
(* The printers *)

RECURSIVE fmt_digits(_)
fmt_digits(n) ==
    IF n < 10 THEN <<ZERO + n>> ELSE fmt_digits(n \div 10) \o <<ZERO + (n % 10)>>

\* Rust's "{x}" of an i64: decimal, with a minus sign if negative
fmt_i64(x) == IF x < 0 THEN <<MINUS>> \o fmt_digits(-x) ELSE fmt_digits(x)

RECURSIVE chain_end(_)
\* the value of next when the while-let loop over the rest chain ends
chain_end(next) == IF next.tag = "Cons" THEN chain_end(next.cdr) ELSE next

(* printer.rs *)
RECURSIVE print(_), print_cons(_, _), print_cons_loop(_)

print(value) ==
    CASE value.tag = "Cons" -> print_cons(value.car, value.cdr)
      [] value.tag = "Nil" -> <<LPAREN, RPAREN>>
      [] value.tag = "Symbol" -> value.text
      [] value.tag = "Int64" -> fmt_i64(value.val)
      [] value.tag = "String" -> <<DQUOTE>> \o value.text \o <<DQUOTE>>
      [] value.tag = "Eof" -> <<>>

print_cons_loop(next) ==
    IF next.tag = "Cons"
    THEN <<SP>> \o print(next.car) \o print_cons_loop(next.cdr)
    ELSE <<>>

\* after the loop the code prints cdr, the parameter, and not next
print_cons(car, cdr) ==
    <<LPAREN>> \o print(car) \o print_cons_loop(cdr)
    \o (IF chain_end(cdr).tag = "Nil" THEN <<>> ELSE <<SP, DOT, SP>> \o print(cdr))
    \o <<RPAREN>>

(* types.rs: Display for Handle *)
EofText == <<35, 60, 101, 111, 102, 62>>     \* "#<eof>"

RECURSIVE fmt(_), write_cons(_, _), write_cons_loop(_)

fmt(value) ==
    CASE value.tag = "Cons" -> write_cons(value.car, value.cdr)
      [] value.tag = "Nil" -> <<LPAREN, RPAREN>>
      [] value.tag = "Symbol" -> value.text
      [] value.tag = "Int64" -> fmt_i64(value.val)
      [] value.tag = "String" -> <<DQUOTE>> \o value.text \o <<DQUOTE>>
      [] value.tag = "Eof" -> EofText

write_cons_loop(next) ==
    IF next.tag = "Cons"
    THEN <<SP>> \o fmt(next.car) \o write_cons_loop(next.cdr)
    ELSE <<>>

write_cons(car, cdr) ==
    <<LPAREN>> \o fmt(car) \o write_cons_loop(cdr)
    \o (IF chain_end(cdr).tag = "Nil" THEN <<>> ELSE <<SP, DOT, SP>> \o fmt(chain_end(cdr)))
    \o <<RPAREN>>

(* main.rs *)
RECURSIVE main_print(_), main_print_cons(_, _), main_print_cons_loop(_)

main_print(value) ==
    CASE value.tag = "Cons" -> main_print_cons(value.car, value.cdr)
      [] value.tag = "Nil" -> <<LPAREN, RPAREN>>
      [] value.tag = "Symbol" -> value.text
      [] value.tag = "Int64" -> fmt_i64(value.val)
      [] value.tag = "String" -> <<DQUOTE>> \o value.text \o <<DQUOTE>>
      [] value.tag = "Eof" -> <<>>

main_print_cons_loop(cdr) ==
    IF cdr.tag = "Cons"
    THEN <<SP>> \o main_print(cdr.car) \o main_print_cons_loop(cdr.cdr)
    ELSE <<>>

main_print_cons(car, cdr) ==
    <<LPAREN>> \o main_print(car) \o main_print_cons_loop(cdr)
    \o (IF chain_end(cdr).tag = "Nil" THEN <<>>
        ELSE <<SP, DOT, SP>> \o main_print(chain_end(cdr)))
    \o <<RPAREN>>

Printers == {"printer.rs", "types.rs", "main.rs"}

Render(p, value) ==
    CASE p = "printer.rs" -> print(value)
      [] p = "types.rs" -> fmt(value)
      [] p = "main.rs" -> main_print(value)

-----------------------------------------------------------------------------
(* parser.rs: read.  The arm of each state's match that a byte selects. *)

\* the space class without the tab
is_space_no_tab(c) == c \in {Some(SP), Some(NL)}

is_space(c) == c \in {Some(SP), Some(TAB), Some(NL)}

is_delimiter(c) == c \in {Some(SP), Some(TAB), Some(NL), Some(LPAREN), Some(RPAREN)}

is_digit(c) == c # None /\ c[1] >= ZERO /\ c[1] <= NINE

NoneArm(c) ==
    CASE is_space(c) -> "skip"
      [] c = Some(LPAREN) -> "list"
      [] c = Some(DQUOTE) -> "string"
      [] c = Some(QUOTE) -> "quote"
      [] c = Some(RPAREN) -> "panic_paren"
      [] is_digit(c) \/ c = Some(MINUS) \/ c = Some(PLUS) -> "int"
      [] c = None -> "eof"
      [] OTHER -> IF is_symbol_char(c[1]) THEN "symbol" ELSE "panic_char"

ListArm(c) ==
    CASE c \in {Some(NL), Some(SP)} -> "skip"
      [] c = Some(RPAREN) -> "close"
      [] c = Some(DOT) -> "dot"
      [] c = None -> "panic_eof"
      [] OTHER -> "read"

\* MaybeDot taking only the space byte for a delimiter
MaybeDotArm_space_only(c) ==
    CASE c = Some(SP) -> "tail"
      [] c = None -> "panic_eof"
      [] OTHER -> "unwind"

MaybeDotArm(c) ==
    CASE is_space(c) -> "tail"
      [] c = None -> "panic_eof"
      [] OTHER -> "unwind"

\* ListEnd skipping every byte up to the closing parenthesis
ListEndArm_lenient(c) ==
    CASE c = Some(RPAREN) -> "close"
      [] c = None -> "panic_eof"
      [] OTHER -> "skip"

ListEndArm(c) ==
    CASE is_space(c) -> "skip"
      [] c = Some(RPAREN) -> "close"
      [] c = None -> "panic_eof"
      [] OTHER -> "panic_expected"

\* Int refusing every byte that is neither a digit nor a delimiter
IntArm_strict(c) ==
    CASE is_delimiter(c) -> "delimiter"
      [] is_digit(c) -> "digit"
      [] c = None -> "eof"
      [] OTHER -> "panic_char"

IntArm(c) ==
    CASE is_delimiter(c) -> "delimiter"
      [] is_digit(c) -> "digit"
      [] c = None -> "eof"
      [] OTHER -> IF is_symbol_char(c[1]) THEN "symbol" ELSE "panic_char"

SymbolArm(c) ==
    CASE is_delimiter(c) -> "delimiter"
      [] c = None -> "eof"
      [] OTHER -> IF is_symbol_char(c[1]) THEN "append" ELSE "panic_char"

StringArm(c) ==
    CASE c = Some(DQUOTE) -> "close"
      [] c = Some(BACKSLASH) -> "backslash"
      [] c = None -> "panic_eof"
      [] OTHER -> "append"

-----------------------------------------------------------------------------
(* parser.rs: read, one iteration of its loop per step.  A frame of the     *)
(* call stack is [st, v]: the ParseState and its Vec.  While a frame waits  *)
(* for a recursive read its st names the call: "ListRead" (v.push(read) in  *)
(* List), "DotTail" and "DotUnwind" (the two calls in MaybeDot),            *)
(* "QuoteRead" (the call in the quote arm of None).                         *)

NewFrame == [st |-> "None", v |-> <<>>]

Top == stack[Len(stack)]

SetTop(st, v) == [stack EXCEPT ![Len(stack)] = [st |-> st, v |-> v]]

\* the state a caller continues in once the recursive read has returned
AfterCall(st) ==
    CASE st = "ListRead" -> "List"
      [] st = "DotTail" -> "ListEnd"
      [] st = "DotUnwind" -> "List"

RECURSIVE Deliver(_, _, _)
\* read returns x to the callers stk: the caller pushes x on its Vec and goes
\* on, or, in the quote arm, returns (quote x) to its own caller at once.
Deliver(stk, x, rs) ==
    IF stk = <<>>
    THEN [stack |-> <<>>, rets |-> Append(rs, x), done |-> TRUE, result |-> x]
    ELSE LET p == stk[Len(stk)]
             rest == SubSeq(stk, 1, Len(stk) - 1)
         IN IF p.st = "QuoteRead"
            THEN Deliver(rest, make_list(<<new_symbol(QuoteText), x, new_nil>>),
                         Append(rs, x))
            ELSE [stack |-> Append(rest, [st |-> AfterCall(p.st), v |-> Append(p.v, x)]),
                  rets |-> Append(rs, x), done |-> FALSE, result |-> NoResult]

Goto(i, st, v) ==
    /\ inp' = i
    /\ stack' = SetTop(st, v)
    /\ UNCHANGED <<pc, result, err, rets>>

Panic(i, msg) ==
    /\ inp' = i
    /\ pc' = "panicked"
    /\ err' = msg
    /\ UNCHANGED <<stack, result, rets>>

Return(i, x) ==
    LET d == Deliver(SubSeq(stack, 1, Len(stack) - 1), x, rets) IN
    /\ inp' = i
    /\ stack' = d.stack
    /\ rets' = d.rets
    /\ pc' = IF d.done THEN "returned" ELSE pc
    /\ result' = d.result
    /\ UNCHANGED err

CallRead(i, st, v) ==
    /\ inp' = i
    /\ stack' = Append(SetTop(st, v), NewFrame)
    /\ UNCHANGED <<pc, result, err, rets>>

\* return make_xxx(v), where the constructor may panic
ReturnMade(i, o) == IF o.ok THEN Return(i, o.val) ELSE Panic(i, o.err)

Reading(st) == pc = "reading" /\ stack # <<>> /\ Top.st = st

Frame ==
    UNCHANGED <<shape, input, phase, first, printer, chunks, stdout, reads,
                hsrc, hsrc2, hout, hfresh, hlast, hops>>

StepNone ==
    /\ Reading("None")
    /\ LET g == Input_get(inp)
           arm == NoneArm(g.c)
       IN CASE arm = "skip" -> Goto(g.inp, "None", <<>>)
            [] arm = "list" -> Goto(g.inp, "List", <<>>)
            [] arm = "string" -> Goto(g.inp, "String", <<>>)
            [] arm = "quote" -> CallRead(g.inp, "QuoteRead", <<>>)
            [] arm = "panic_paren" -> Panic(g.inp, "Error parsing: unexpected ).")
            [] arm = "int" -> Goto(g.inp, "Int", <<g.c[1]>>)
            [] arm = "symbol" -> Goto(g.inp, "Symbol", <<g.c[1]>>)
            [] arm = "panic_char" -> Panic(g.inp, "Error parsing: unexpected byte.")
            [] arm = "eof" -> Return(g.inp, new_eof)
    /\ Frame

StepList ==
    /\ Reading("List")
    /\ LET g == Input_get(inp)
           arm == ListArm(g.c)
           v == Top.v
       IN CASE arm = "skip" -> Goto(g.inp, "List", v)
            [] arm = "close" -> Return(g.inp, make_list(Append(v, new_nil)))
            [] arm = "dot" -> Goto(g.inp, "MaybeDot", v)
            [] arm = "read" ->
                 LET p == Input_push(g.inp, g.c[1]) IN
                 IF p.ok THEN CallRead(p.inp, "ListRead", v) ELSE Panic(p.inp, PushPanic)
            [] arm = "panic_eof" -> Panic(g.inp, "Error parsing list: unexpected EOF.")
    /\ Frame

StepMaybeDot ==
    /\ Reading("MaybeDot")
    /\ LET g == Input_get(inp)
           arm == MaybeDotArm(g.c)
           v == Top.v
       IN CASE arm = "tail" ->
                 IF v = <<>>
                 THEN Panic(g.inp, "Error parsing list: unexpected .")
                 ELSE CallRead(g.inp, "DotTail", v)
            [] arm = "unwind" ->
                 LET p1 == Input_push(g.inp, g.c[1])
                     p2 == Input_push(p1.inp, DOT)
                 IN IF ~p1.ok THEN Panic(p1.inp, PushPanic)
                    ELSE IF ~p2.ok THEN Panic(p2.inp, PushPanic)
                    ELSE CallRead(p2.inp, "DotUnwind", v)
            [] arm = "panic_eof" -> Panic(g.inp, "Error parsing list: unexpected EOF.")
    /\ Frame

StepListEnd ==
    /\ Reading("ListEnd")
    /\ LET g == Input_get(inp)
           arm == ListEndArm(g.c)
           v == Top.v
       IN CASE arm = "skip" -> Goto(g.inp, "ListEnd", v)
            [] arm = "close" -> Return(g.inp, make_list(v))
            [] arm = "panic_expected" -> Panic(g.inp, "Error parsing list: expected ).")
            [] arm = "panic_eof" -> Panic(g.inp, "Error parsing list: unexpected EOF.")
    /\ Frame

StepInt ==
    /\ Reading("Int")
    /\ LET g == Input_get(inp)
           arm == IntArm(g.c)
           v == Top.v
       IN CASE arm = "delimiter" ->
                 LET p == Input_push(g.inp, g.c[1]) IN
                 IF p.ok THEN \E o \in make_int(v) : ReturnMade(p.inp, o)
                 ELSE Panic(p.inp, PushPanic)
            [] arm = "digit" -> Goto(g.inp, "Int", Append(v, g.c[1]))
            [] arm = "symbol" -> Goto(g.inp, "Symbol", Append(v, g.c[1]))
            [] arm = "panic_char" -> Panic(g.inp, "Error parsing: unexpected byte.")
            [] arm = "eof" -> \E o \in make_int(v) : ReturnMade(g.inp, o)
    /\ Frame

StepSymbol ==
    /\ Reading("Symbol")
    /\ LET g == Input_get(inp)
           arm == SymbolArm(g.c)
           v == Top.v
       IN CASE arm = "delimiter" ->
                 LET p == Input_push(g.inp, g.c[1]) IN
                 IF p.ok THEN ReturnMade(p.inp, make_symbol(v))
                 ELSE Panic(p.inp, PushPanic)
            [] arm = "append" -> Goto(g.inp, "Symbol", Append(v, g.c[1]))
            [] arm = "panic_char" -> Panic(g.inp, "Error parsing: unexpected byte.")
            [] arm = "eof" -> ReturnMade(g.inp, make_symbol(v))
    /\ Frame

StepString ==
    /\ Reading("String")
    /\ LET g == Input_get(inp)
           arm == StringArm(g.c)
           v == Top.v
       IN CASE arm = "close" -> ReturnMade(g.inp, make_string(v))
            [] arm = "backslash" -> Goto(g.inp, "String", v)
            [] arm = "append" -> Goto(g.inp, "String", Append(v, g.c[1]))
            [] arm = "panic_eof" -> Panic(g.inp, "Error parsing string: unexpected EOF.")
    /\ Frame

\* The round trip: the value the first read returned is printed by one of the
\* printers, and read is called on a new Input over the text.
Reprint ==
    /\ phase = 1
    /\ pc = "returned"
    /\ \E p \in Printers :
         /\ printer' = p
         /\ inp' = Input_new(Render(p, result))
    /\ first' = result
    /\ phase' = 2
    /\ pc' = "reading"
    /\ stack' = <<NewFrame>>
    /\ result' = NoResult
    /\ rets' = <<>>
    /\ UNCHANGED <<shape, input, err, chunks, stdout, reads,
                   hsrc, hsrc2, hout, hfresh, hlast, hops>>

(* main.rs: the loop of main *)

eval(object) == object

\* "Welcome to Bread Scheme!" and the newline of println
Welcome ==
    <<87, 101, 108, 99, 111, 109, 101, 32, 116, 111, 32, 66, 114, 101, 97, 100, 32,
      83, 99, 104, 101, 109, 101, 33, NL>>

Prompt == <<62, 62, 62, 32>>     \* ">>> "

\* the prompt, printed when nothing is pending
PromptText(i, ch) == IF has_pending(i, ch) THEN <<>> ELSE Prompt

\* read has returned an object: it is printed, pending space is cleared, and
\* the next pass prints the prompt and calls read
MainLoop ==
    /\ phase = 3
    /\ pc = "returned"
    /\ result.tag # "Eof"
    /\ LET c == clear_pending_space(inp, chunks)
           printed == stdout \o main_print(eval(result)) \o <<NL>>
       IN /\ inp' = c.inp
          /\ reads' = Append(reads, result)
          /\ IF c.ok
             THEN /\ stdout' = printed \o PromptText(c.inp, chunks)
                  /\ pc' = "reading"
                  /\ stack' = <<NewFrame>>
                  /\ result' = NoResult
                  /\ err' = err
             ELSE /\ stdout' = printed
                  /\ pc' = "panicked"
                  /\ err' = c.err
                  /\ UNCHANGED <<stack, result>>
    /\ UNCHANGED <<shape, input, rets, phase, first, printer, chunks,
                   hsrc, hsrc2, hout, hfresh, hlast, hops>>

\* read has returned Eof: exit(0)
MainExit ==
    /\ phase = 3
    /\ pc = "returned"
    /\ result.tag = "Eof"
    /\ reads' = Append(reads, result)
    /\ pc' = "exited"
    /\ UNCHANGED <<shape, input, inp, stack, result, err, rets, phase, first, printer,
                   chunks, stdout, hsrc, hsrc2, hout, hfresh, hlast, hops>>

-----------------------------------------------------------------------------
(* The streams the reader is run on *)

MaxLen == 3
MaxElems == 3

D1 == ZERO + 1
D2 == ZERO + 2
D3 == ZERO + 3

Alphabet == {SP, TAB, NL, LPAREN, RPAREN, DOT, QUOTE, DQUOTE, BACKSLASH,
             D1, MINUS, LOWER_A, HASH}

\* every byte string of at most MaxLen bytes of the alphabet
FreeInputs == UNION {[1..n -> Alphabet] : n \in 0..MaxLen}

\* list elements: text, and the value the text denotes
Atoms == {
    [text |-> <<D1>>, val |-> new_int64(1)],
    [text |-> <<LOWER_A>>, val |-> new_symbol(<<LOWER_A>>)],
    [text |-> <<DOT, LOWER_A>>, val |-> new_symbol(<<DOT, LOWER_A>>)],
    [text |-> <<LPAREN, RPAREN>>, val |-> new_nil] }

ElemSeqs == UNION {[1..n -> Atoms] : n \in 0..MaxElems}

RECURSIVE JoinElems(_, _)
\* e1 SP e2 SP ... en, from element k on
JoinElems(es, k) ==
    IF k > Len(es) THEN <<>>
    ELSE es[k].text \o (IF k < Len(es) THEN <<SP>> ELSE <<>>) \o JoinElems(es, k + 1)

\* ( e1 e2 ... en )
ListText(es) == <<LPAREN>> \o JoinElems(es, 1) \o <<RPAREN>>

\* ( e1 e2 ... en . t )
DottedText(es, t) ==
    <<LPAREN>> \o JoinElems(es, 1) \o <<SP, DOT, SP>> \o t.text \o <<RPAREN>>

\* further streams: the tests of parser.rs, and longer cases of each state
ExtraInputs == {
    <<SP, SP, SP>>,
    <<SP, NL>>,
    <<LPAREN, D1, SP, SP, D2, SP, DOT, SP, D3, RPAREN>>,
    <<LPAREN, D1, SP, D2, SP, DOT, SP, D3, RPAREN>>,
    <<LPAREN, D1, SP, D2, SP, DOT, TAB, D3, NL, RPAREN>>,
    <<LPAREN, D1, SP, DOT, NL, LPAREN, D2, SP, DOT, SP, D3, RPAREN, RPAREN>>,
    <<LPAREN, D1, SP, DOT, SP, D2, SP, D3, RPAREN>>,
    <<LPAREN, D1, SP, DOT, SP, D2, SP, DOT, SP, D3, RPAREN>>,
    <<LPAREN, D1, SP, DOT, SP, QUOTE, LOWER_A, RPAREN>>,
    <<LPAREN, D1, SP, DOT, SP, DQUOTE, LOWER_A, DQUOTE, RPAREN>>,
    <<LPAREN, LPAREN, D1, SP, D2, SP, DOT, SP, D3, RPAREN, SP, LOWER_A, RPAREN>>,
    <<LPAREN, D1, TAB, RPAREN>>,
    <<LPAREN, D1, TAB, D2, RPAREN>>,
    <<LPAREN, D1, TAB, DOT, SP, D2, RPAREN>>,
    <<QUOTE, LPAREN, D1, SP, LOWER_A, RPAREN>>,
    <<QUOTE, QUOTE, LOWER_A>>,
    <<SP, QUOTE, SP, LOWER_A, SP>>,
    <<LPAREN, QUOTE, LOWER_A, SP, QUOTE, D1, RPAREN>>,
    <<DQUOTE, LOWER_A, BACKSLASH, DQUOTE, LOWER_B, DQUOTE>>,
    <<DQUOTE, BACKSLASH, BACKSLASH, LOWER_A, DQUOTE>>,
    <<DQUOTE, BACKSLASH, BACKSLASH, BACKSLASH, DQUOTE, DQUOTE>>,
    <<DQUOTE, LOWER_A, SP, LPAREN, DQUOTE>>,
    <<DQUOTE, 255, DQUOTE>>,
    <<LPAREN, DQUOTE, LOWER_A, DQUOTE, SP, D1, RPAREN>>,
    <<D1, D2, SP, LOWER_A>>,
    <<D1, PLUS>>,
    <<MINUS, D1, D2, D3>>,
    <<PLUS, D1, D2, RPAREN>>,
    <<LPAREN, D1, D2, LPAREN, LOWER_A, RPAREN, LOWER_B, RPAREN>>,
    <<LPAREN, D1, SP, DOT, RPAREN>>,
    <<LPAREN, D1, SP, DOT, LPAREN, RPAREN, RPAREN>>,
    <<LPAREN, D1, SP, DOT, SP, DOT, RPAREN>>,
    <<LPAREN, DOT, DOT, RPAREN>>,
    <<LPAREN, D1, SP, DOT, DOT, SP, DOT, LOWER_A, DOT, RPAREN>>,
    <<LPAREN, MINUS, SP, D1, RPAREN>>,
    <<LPAREN, PLUS, RPAREN>>,
    <<MINUS, D1, LOWER_A, D2>>,
    <<PLUS, D1, D2, MINUS, SP>>,
    <<LPAREN, D1, TAB, TAB, LOWER_A, NL, RPAREN>>,
    <<D1, SP, LPAREN, DOT, LOWER_A, RPAREN, NL>>,
    <<LOWER_A, LPAREN, D1, SP, DOT, LOWER_A, SP, DOT, SP, D2, RPAREN, D3>> }

Shapes ==
    {[kind |-> "free", text |-> t] : t \in FreeInputs \cup ExtraInputs}
    \cup {[kind |-> "list", es |-> es] : es \in ElemSeqs}
    \cup {[kind |-> "dotted", es |-> es, t |-> t] : es \in ElemSeqs, t \in Atoms}

\* what stands between two values of a stream, and after the last
Separators == {<<SP>>, <<NL>>, <<TAB>>}
Endings == {<<>>, <<NL>>}

RECURSIVE JoinWith(_, _, _)
\* e1 sep e2 sep ... en, from element k on
JoinWith(es, sep, k) ==
    IF k > Len(es) THEN <<>>
    ELSE es[k].text \o (IF k < Len(es) THEN sep ELSE <<>>) \o JoinWith(es, sep, k + 1)

\* streams of several values for the loop of main
SeqShapes ==
    {[kind |-> "seq", es |-> es, sep |-> sep, end |-> end] :
        es \in ElemSeqs, sep \in Separators, end \in Endings}

TextOf(sh) ==
    CASE sh.kind = "free" -> sh.text
      [] sh.kind = "list" -> ListText(sh.es)
      [] sh.kind = "dotted" -> DottedText(sh.es, sh.t)
      [] sh.kind = "seq" -> JoinWith(sh.es, sh.sep, 1) \o sh.end

\* the stream reaches the BufReader in one chunk or in two
ChunkSets(stream) ==
    IF stream = <<>> THEN {{0}}
    ELSE {{k, Len(stream)} : k \in 1..Len(stream)}

-----------------------------------------------------------------------------
(* The byte-source harness: get and push applied in any order to the Input  *)
(* of parser.rs and to the Input of input.rs, over the same stream.         *)

MaxStream == 2
MaxOps == 5
PushbackCapacity == 2

HBytes == {LOWER_A, LOWER_B, SP, NL}

HStreams == UNION {[1..n -> HBytes] : n \in 0..MaxStream}

HRunning == hlast.ok /\ hlast.ok2 /\ hops < MaxOps

HGet ==
    /\ HRunning
    /\ LET g == Input_get(hsrc)
           g2 == Input2_get(hsrc2)
       IN /\ hsrc' = g.inp
          /\ hsrc2' = g2.inp
          /\ hlast' = [op |-> "get", byte |-> None, c |-> g.c, c2 |-> g2.c,
                       ok |-> TRUE, ok2 |-> TRUE]
    /\ hout' = IF hout # <<>> THEN Tail(hout) ELSE hout
    /\ hfresh' = IF hout = <<>> /\ hfresh < Len(hsrc.stream) THEN hfresh + 1 ELSE hfresh
    /\ hops' = hops + 1
    /\ UNCHANGED chunks
    /\ UNCHANGED readerVars

HPush ==
    /\ HRunning
    /\ \E b \in HBytes \cup {0} :
         LET p == Input_push(hsrc, b)
             p2 == Input2_push(hsrc2, b)
         IN /\ hsrc' = p.inp
            /\ hsrc2' = p2.inp
            /\ hlast' = [op |-> "push", byte |-> Some(b), c |-> None, c2 |-> None,
                         ok |-> p.ok, ok2 |-> p2.ok]
            /\ hout' = IF Len(hout) < PushbackCapacity THEN <<b>> \o hout ELSE hout
    /\ hops' = hops + 1
    /\ UNCHANGED <<hfresh, chunks>>
    /\ UNCHANGED readerVars

HClear ==
    /\ HRunning
    /\ LET c == clear_pending_space(hsrc, chunks)
           c2 == Input2_clear_pending_space(hsrc2, chunks)
       IN /\ hsrc' = c.inp
          /\ hsrc2' = c2.inp
          /\ hlast' = [op |-> "clear", byte |-> None, c |-> None, c2 |-> None,
                       ok |-> c.ok, ok2 |-> c2.ok, err |-> c.err, err2 |-> c2.err]
          /\ hout' = (IF c.inp.buf[1] = None THEN <<>> ELSE c.inp.buf[1])
                     \o (IF c.inp.buf[2] = None THEN <<>> ELSE c.inp.buf[2])
          /\ hfresh' = c.inp.pos
    /\ hops' = hops + 1
    /\ UNCHANGED chunks
    /\ UNCHANGED readerVars

-----------------------------------------------------------------------------
(* Specifications *)

HIdle ==
    /\ hout = <<>>
    /\ hfresh = 0
    /\ hlast = [op |-> "new", byte |-> None, c |-> None, c2 |-> None,
                ok |-> TRUE, ok2 |-> TRUE]
    /\ hops = 0

\* read is called on a new Input over the stream
Init ==
    /\ shape \in Shapes
    /\ input = TextOf(shape)
    /\ inp = Input_new(input)
    /\ stack = <<NewFrame>>
    /\ pc = "reading"
    /\ result = NoResult
    /\ err = ""
    /\ rets = <<>>
    /\ phase = 1
    /\ first = NoResult
    /\ printer = ""
    /\ chunks = {Len(input)}
    /\ stdout = <<>>
    /\ reads = <<>>
    /\ hsrc = Input_new(<<>>)
    /\ hsrc2 = Input2_new(<<>>)
    /\ HIdle

Next ==
    \/ StepNone
    \/ StepList
    \/ StepMaybeDot
    \/ StepListEnd
    \/ StepInt
    \/ StepSymbol
    \/ StepString
    \/ Reprint

Spec == Init /\ [][Next]_vars

\* the two Inputs are made over one stream; no read is running
InitInput ==
    /\ shape = [kind |-> "none"]
    /\ input = <<>>
    /\ inp = Input_new(<<>>)
    /\ stack = <<>>
    /\ pc = "idle"
    /\ result = NoResult
    /\ err = ""
    /\ rets = <<>>
    /\ phase = 1
    /\ first = NoResult
    /\ printer = ""
    /\ stdout = <<>>
    /\ reads = <<>>
    /\ \E stream \in HStreams :
         /\ hsrc = Input_new(stream)
         /\ hsrc2 = Input2_new(stream)
         /\ chunks \in ChunkSets(stream)
    /\ HIdle

NextInput ==
    \/ HGet
    \/ HPush
    \/ HClear

SpecInput == InitInput /\ [][NextInput]_vars

\* main has made the Input over the stream, printed the prompt and called read
InitRepl ==
    /\ shape \in Shapes \cup SeqShapes
    /\ input = TextOf(shape)
    /\ inp = Input_new(input)
    /\ chunks \in ChunkSets(input)
    /\ stack = <<NewFrame>>
    /\ pc = "reading"
    /\ result = NoResult
    /\ err = ""
    /\ rets = <<>>
    /\ phase = 3
    /\ first = NoResult
    /\ printer = ""
    /\ stdout = Welcome \o PromptText(inp, chunks)
    /\ reads = <<>>
    /\ hsrc = Input_new(<<>>)
    /\ hsrc2 = Input2_new(<<>>)
    /\ HIdle

NextRepl ==
    \/ StepNone
    \/ StepList
    \/ StepMaybeDot
    \/ StepListEnd
    \/ StepInt
    \/ StepSymbol
    \/ StepString
    \/ MainLoop
    \/ MainExit

SpecRepl == InitRepl /\ [][NextRepl]_vars

(* make_int at a reduced width, on the tokens the Int state can hand to it *)

MaxDigits == 3
IntWidth == 8

\* an optional sign and up to MaxDigits digits, at least one byte
IntTokens ==
    {sign \o ds : sign \in {<<>>, <<PLUS>>, <<MINUS>>},
                  ds \in UNION {[1..n -> ZERO..NINE] : n \in 0..MaxDigits}}
    \ {<<>>}

\* the Int state holds the token and is about to return make_int(&v)
InitInt ==
    /\ shape = [kind |-> "int"]
    /\ input \in IntTokens
    /\ inp = [Input_new(input) EXCEPT !.pos = Len(input)]
    /\ chunks = {Len(input)}
    /\ stack = <<[st |-> "Int", v |-> input]>>
    /\ pc = "making"
    /\ result = NoResult
    /\ err = ""
    /\ rets = <<>>
    /\ phase = 4
    /\ first = NoResult
    /\ printer = ""
    /\ stdout = <<>>
    /\ reads = <<>>
    /\ hsrc = Input_new(<<>>)
    /\ hsrc2 = Input2_new(<<>>)
    /\ HIdle

\* return make_int(&v), in an i64 of IntWidth bits
MakeInt ==
    /\ phase = 4
    /\ pc = "making"
    /\ \E o \in make_int_w(Top.v, IntWidth) :
         /\ pc' = IF o.ok THEN "returned" ELSE "panicked"
         /\ result' = o.val
         /\ err' = o.err
         /\ rets' = IF o.ok THEN Append(rets, o.val) ELSE rets
    /\ stack' = <<>>
    /\ UNCHANGED inp
    /\ Frame

NextInt == MakeInt

SpecInt == InitInt /\ [][NextInt]_vars

-----------------------------------------------------------------------------
(* Properties.  What the statements below speak of, written without the     *)
(* operators of the reader.                                                 *)

\* the byte the next get delivers
Peek == Input_get(inp).c

WhiteSpace == {Some(SP), Some(TAB), Some(NL)}

Last(seq) == seq[Len(seq)]

RECURSIVE Chain(_, _, _)
\* Pair(vs[k], Pair(vs[k+1], ... Pair(vs[n], end)))
Chain(vs, k, end) ==
    IF k > Len(vs) THEN end
    ELSE [tag |-> "Cons", car |-> vs[k], cdr |-> Chain(vs, k + 1, end)]

\* the values the elements of a drawn list denote
Vals(es) == [k \in 1..Len(es) |-> es[k].val]

Sym(text) == [tag |-> "Symbol", text |-> text]
Integer(n) == [tag |-> "Int64", val |-> n]
Nil == [tag |-> "Nil"]
Eof == [tag |-> "Eof"]

\* a call of read, running in state st at the top of the stack, returns in this step
ReturnsFrom(st) == Reading(st) /\ Len(rets') > Len(rets)

\* the value that call returns
Returned == rets'[Len(rets) + 1]

C1_ListStep ==
    /\ (phase = 1 /\ shape.kind = "list")
         => /\ pc' # "panicked"
            /\ (pc' = "returned" => result' = Chain(Vals(shape.es), 1, Nil))
    /\ (ReturnsFrom("List") /\ Peek = Some(RPAREN))
         => Returned = Chain(Top.v, 1, Nil)

(* C1: read of ( e1 ... en ), the elements separated by spaces, is the chain
   Pair(e1, Pair(e2, ... Pair(en, Nil))) in source order, Nil for n = 0, and
   the read does not fail; every list closed in the List state is the chain
   of the values accumulated so far, terminated by Nil. *)
C1_ProperList == [][C1_ListStep]_vars

C1_Witness ==
    /\ phase = 1
    /\ shape.kind = "list"
    /\ Len(shape.es) = 3
    /\ shape.es[1] # shape.es[2]
    /\ pc = "returned"
    /\ result = Chain(Vals(shape.es), 1, Nil)

C2_EofStep ==
    /\ (phase = 1 /\ \A k \in 1..Len(input) : Some(input[k]) \in WhiteSpace)
         => /\ pc' # "panicked"
            /\ (stack' # <<>> => Last(stack').st = "None")
            /\ (pc' = "returned" => result' = Eof)
    /\ (Reading("None") /\ Peek = None)
         => /\ pc' # "panicked"
            /\ Len(rets') > Len(rets)
            /\ Returned = Eof

(* C2: on a stream of only space, tab and newline bytes (or no byte) read
   returns EndOfInput and does not fail; end of stream met in the None state
   returns EndOfInput from that call, whatever the stream. *)
C2_CleanEof == [][C2_EofStep]_vars

C2_Witness ==
    /\ phase = 1
    /\ input = <<SP, TAB, NL>>
    /\ pc = "returned"
    /\ result = Eof

C3_DotStep ==
    /\ (phase = 1 /\ shape.kind = "dotted" /\ Len(shape.es) >= 1)
         => /\ pc' # "panicked"
            /\ (pc' = "returned" => result' = Chain(Vals(shape.es), 1, shape.t.val))
    /\ (Reading("MaybeDot") /\ Top.v # <<>> /\ Peek \in WhiteSpace)
         => /\ pc' = "reading"
            /\ Len(stack') = Len(stack) + 1
            /\ Last(stack') = [st |-> "None", v |-> <<>>]
            /\ stack'[Len(stack)] = [st |-> "DotTail", v |-> Top.v]
    /\ (Len(stack) >= 2 /\ stack[Len(stack) - 1].st = "DotTail"
        /\ Len(stack') = Len(stack) - 1)
         => Last(stack') = [st |-> "ListEnd",
                            v |-> Append(stack[Len(stack) - 1].v, Returned)]
    /\ (Reading("ListEnd") /\ Peek = Some(RPAREN))
         => /\ Len(rets') > Len(rets)
            /\ Returned = Chain(SubSeq(Top.v, 1, Len(Top.v) - 1), 1, Last(Top.v))
    /\ (Reading("ListEnd") /\ Peek \in WhiteSpace)
         => (pc' = "reading" /\ stack' = stack)
    /\ (Reading("ListEnd") /\ Peek \notin WhiteSpace \cup {Some(RPAREN)})
         => pc' = "panicked"

(* C3: in the MaybeDot state, with at least one element accumulated, a space,
   tab or newline commits to a dotted tail: one recursive read is made, its
   value becomes the rest of the last Pair, and after it only white space and
   then ) are accepted.  ( e1 ... en . t ) with n >= 1 reads as
   Pair(e1, ... Pair(en, t)). *)
C3_DottedTail == [][C3_DotStep]_vars

C3_Witness ==
    /\ phase = 1
    /\ input = <<LPAREN, D1, SP, D2, SP, DOT, TAB, D3, NL, RPAREN>>
    /\ pc = "returned"
    /\ result = Chain(<<Integer(1), Integer(2)>>, 1, Integer(3))

C4_UnwindStep ==
    /\ (Reading("MaybeDot") /\ Peek # None /\ Peek \notin WhiteSpace)
         => /\ pc' = "reading"
            /\ Len(stack') = Len(stack) + 1
            /\ Last(stack') = [st |-> "None", v |-> <<>>]
            /\ stack'[Len(stack)] = [st |-> "DotUnwind", v |-> Top.v]
            /\ Input_get(inp').c = Some(DOT)
            /\ Input_get(Input_get(inp').inp).c = Peek
            /\ Input_get(Input_get(inp').inp).inp = Input_get(inp).inp
    /\ (Len(stack) >= 2 /\ stack[Len(stack) - 1].st = "DotUnwind"
        /\ Len(stack') = Len(stack) - 1)
         => /\ Returned.tag = "Symbol"
            /\ Len(Returned.text) >= 2
            /\ Returned.text[1] = DOT
            /\ Last(stack') = [st |-> "List",
                               v |-> Append(stack[Len(stack) - 1].v, Returned)]
    /\ (phase = 1 /\ input = <<LPAREN, D1, SP, DOT, LOWER_A, RPAREN>>)
         => /\ pc' # "panicked"
            /\ (pc' = "returned"
                  => result' = Chain(<<Integer(1), Sym(<<DOT, LOWER_A>>)>>, 1, Nil))

(* C4: in the MaybeDot state a byte that is not space, tab or newline is
   pushed back, then a dot is pushed back, so that the recursive read gets the
   dot and then that byte; a value that read returns is a Symbol whose text
   starts with the dot.  (1 .a) reads as Pair(1, Pair(Symbol .a, Nil)). *)
C4_DotSymbol == [][C4_UnwindStep]_vars

C4_Witness ==
    /\ phase = 1
    /\ input = <<LPAREN, D1, SP, DOT, LOWER_A, RPAREN>>
    /\ pc = "returned"
    /\ result = Chain(<<Integer(1), Sym(<<DOT, LOWER_A>>)>>, 1, Nil)

RECURSIVE HasEof(_)
\* an EndOfInput inside the value
HasEof(x) ==
    CASE x.tag = "Eof" -> TRUE
      [] x.tag = "Cons" -> HasEof(x.car) \/ HasEof(x.cdr)
      [] OTHER -> FALSE

RECURSIVE HasEscapedText(_)
\* a Text with a double quote or a backslash in it, inside the value
HasEscapedText(x) ==
    CASE x.tag = "String" -> \E k \in 1..Len(x.text) : x.text[k] \in {DQUOTE, BACKSLASH}
      [] x.tag = "Cons" -> HasEscapedText(x.car) \/ HasEscapedText(x.cdr)
      [] OTHER -> FALSE

\* the first read returned a value that the round trip is stated for
RoundTripCase == phase = 2 /\ ~HasEof(first) /\ ~HasEscapedText(first)

(* C5: for every stream that reads to a value with no Text holding a double
   quote or a backslash, the text a printer emits for the value reads back to
   a structurally equal value, improper lists included. *)
C5_RoundTrip ==
    RoundTripCase => /\ pc # "panicked"
                     /\ (pc = "returned" => result = first)

\* the same, for the printers of types.rs and main.rs alone
C5_RoundTripDisplay ==
    (RoundTripCase /\ printer # "printer.rs")
        => /\ pc # "panicked"
           /\ (pc = "returned" => result = first)

C6_Want ==
    IF hout # <<>> THEN Some(hout[1])
    ELSE IF hfresh < Len(hsrc.stream) THEN Some(hsrc.stream[hfresh + 1])
    ELSE None

C6_GetStep ==
    (hops' = hops + 1 /\ hlast'.op = "get")
        => (hlast'.c = C6_Want /\ hlast'.c2 = C6_Want)

(* C6: pushback is a last-in-first-out stack in front of the stream: get
   returns the most recently pushed outstanding byte; with none outstanding it
   returns the next byte of the stream, in stream order, and nothing at the
   end of the stream.  Both Inputs (parser.rs, input.rs). *)
C6_PushbackLifo == [][C6_GetStep]_vars

C6_Witness ==
    /\ hlast.op = "get"
    /\ hlast.c = Some(LOWER_B)
    /\ hlast.c2 = Some(LOWER_B)
    /\ hout = <<LOWER_A>>
    /\ hfresh = 1

\* the outstanding pushed-back bytes an Input holds, most recent first
Outstanding(i) ==
    (IF i.buf[1] = None THEN <<>> ELSE i.buf[1]) \o (IF i.buf[2] = None THEN <<>> ELSE i.buf[2])

Outstanding2(i) == SubSeq(i.buf, 1, i.buffered)

C7_PushStep ==
    /\ (hops' = hops + 1 /\ hlast'.op = "push")
         => IF Len(hout) < PushbackCapacity
            THEN hlast'.ok /\ hlast'.ok2
            ELSE /\ ~hlast'.ok
                 /\ ~hlast'.ok2
                 /\ hsrc' = hsrc
                 /\ hsrc2' = hsrc2
    /\ Outstanding(hsrc') = hout'
    /\ Outstanding2(hsrc2') = hout'

(* C7: a push with fewer than two bytes outstanding is accepted; a push with
   two outstanding is a panic that leaves the Input as it was; after every
   operation the Input holds exactly the outstanding bytes, in order. *)
C7_PushbackOverflow == [][C7_PushStep]_vars

C7_Witness ==
    /\ hlast.op = "push"
    /\ ~hlast.ok
    /\ ~hlast.ok2
    /\ Len(hout) = 2
    /\ Outstanding(hsrc) = hout
    /\ Outstanding2(hsrc2) = hout

C8_QuoteSym == Sym(<<113, 117, 111, 116, 101>>)

C8_QuoteStep ==
    /\ (Reading("None") /\ Peek = Some(QUOTE))
         => /\ pc' = "reading"
            /\ Len(stack') = Len(stack) + 1
            /\ Last(stack') = [st |-> "None", v |-> <<>>]
            /\ stack'[Len(stack)].st = "QuoteRead"
            /\ rets' = rets
    /\ (Len(stack) >= 2 /\ stack[Len(stack) - 1].st = "QuoteRead"
        /\ Len(rets') > Len(rets))
         => /\ Len(stack') <= Len(stack) - 2
            /\ Len(rets') >= Len(rets) + 2
            /\ rets'[Len(rets) + 2] = Chain(<<C8_QuoteSym, Returned>>, 1, Nil)
    /\ (phase = 1 /\ input = <<QUOTE, LOWER_A>>)
         => /\ pc' # "panicked"
            /\ (pc' = "returned"
                  => result' = Chain(<<C8_QuoteSym, Sym(<<LOWER_A>>)>>, 1, Nil))

(* C8: a quote byte in the None state makes one recursive read, and the call
   returns Pair(Symbol quote, Pair(x, Nil)) for the value x that read
   returned; 'a reads as (quote a). *)
C8_Quote == [][C8_QuoteStep]_vars

C8_Witness ==
    /\ phase = 1
    /\ input = <<QUOTE, LPAREN, D1, SP, LOWER_A, RPAREN>>
    /\ pc = "returned"
    /\ result = Chain(<<C8_QuoteSym,
                        Chain(<<Integer(1), Sym(<<LOWER_A>>)>>, 1, Nil)>>, 1, Nil)

C9_Malformed ==
    /\ pc = "reading"
    /\ stack # <<>>
    /\ \/ Top.st = "None" /\ Peek = Some(RPAREN)
       \/ Top.st \in {"List", "MaybeDot", "ListEnd", "String"} /\ Peek = None
       \/ Top.st = "ListEnd" /\ Peek \notin WhiteSpace \cup {Some(RPAREN)}

C9_PanicStep ==
    /\ C9_Malformed
         => /\ pc' = "panicked"
            /\ err' # ""
            /\ rets' = rets
            /\ result' = [tag |-> "NoResult"]
    /\ pc = "panicked" => (vars' = vars /\ result = [tag |-> "NoResult"])

(* C9: a ) in the None state, the end of the stream in the List, MaybeDot,
   ListEnd or String state, and a byte other than white space or ) in the
   ListEnd state each end the read with a panic: no call returns a value in
   that step, the outermost read has no result, and nothing runs after it. *)
C9_FatalErrors == [][C9_PanicStep]_vars

C9_Witness ==
    /\ pc = "panicked"
    /\ phase = 1
    /\ input = <<LPAREN, D1, SP, DOT, SP, D2, SP, D3, RPAREN>>
    /\ Top.st = "ListEnd"
    /\ err = "Error parsing list: expected )."
    /\ result = [tag |-> "NoResult"]

RECURSIVE C10_Scan(_, _, _)
\* a string literal read as the statement has it, from byte k of s on: a
\* backslash is dropped and the byte after it is taken whatever it is
C10_Scan(s, k, text) ==
    IF k > Len(s) THEN [closed |-> FALSE, text |-> text]
    ELSE IF s[k] = BACKSLASH
    THEN IF k + 1 > Len(s) THEN [closed |-> FALSE, text |-> text]
         ELSE C10_Scan(s, k + 2, Append(text, s[k + 1]))
    ELSE IF s[k] = DQUOTE THEN [closed |-> TRUE, text |-> text]
    ELSE C10_Scan(s, k + 1, Append(text, s[k]))

(* C10: in the String state the byte after a backslash is appended to the
   text whatever it is: a double quote or a backslash right after a backslash
   is part of the Text, and neither ends the string nor starts an escape. *)
C10_EscapeLiteral ==
    (phase = 1 /\ Len(input) >= 1 /\ input[1] = DQUOTE /\ pc = "returned")
        => /\ C10_Scan(input, 2, <<>>).closed
           /\ result = [tag |-> "String", text |-> C10_Scan(input, 2, <<>>).text]

\* what the code does: every backslash is dropped, and the byte after it is
\* read as any other byte of the string
C10_BackslashDropped ==
    (phase = 1 /\ Len(input) >= 1 /\ input[1] = DQUOTE /\ pc = "returned")
        => /\ result.tag = "String"
           /\ \A k \in 1..Len(result.text) : result.text[k] \notin {BACKSLASH, DQUOTE}

-----------------------------------------------------------------------------
(* Tokens *)

\* letters, digits and ! $ % & * + - . / : < = > ? @ ^ _ ~
SymbolChars ==
    (97..122) \cup (65..90) \cup (48..57)
    \cup {33, 36, 37, 38, 42, 43, 45, 46, 47, 58, 60, 61, 62, 63, 64, 94, 95, 126}

Digits == 48..57

\* the bytes of the stream just behind the next byte to be delivered, n of them
Consumed(n) ==
    LET e == inp.pos - Len(Outstanding(inp)) IN
    IF e < n THEN <<>> ELSE SubSeq(inp.stream, e - n + 1, e)

C11_ReclassifyStep ==
    /\ (Reading("Int") /\ Peek # None /\ Peek[1] \in SymbolChars \ Digits)
         => /\ pc' = "reading"
            /\ stack' = [stack EXCEPT ![Len(stack)] =
                            [st |-> "Symbol", v |-> Append(Top.v, Peek[1])]]
    /\ (Reading("Int") \/ Reading("Symbol"))
         => (Top.v # <<>> /\ Top.v = Consumed(Len(Top.v)))
    /\ ReturnsFrom("Symbol") => Returned = Sym(Top.v)
    /\ (phase = 1 /\ input = <<D1, PLUS>>)
         => /\ pc' # "panicked"
            /\ (pc' = "returned" => result' = Sym(<<D1, PLUS>>))

(* C11: a token that starts in the Int state and meets a symbol-char that is
   not a digit goes on in the Symbol state with all the bytes gathered so far;
   the Vec of the Int and Symbol states is the token as spelled in the stream,
   and the Symbol returned has that text; 1+ reads as Symbol 1+. *)
C11_Reclassify == [][C11_ReclassifyStep]_vars

C11_Witness ==
    /\ phase = 1
    /\ input = <<MINUS, D1, LOWER_A, D2>>
    /\ pc = "returned"
    /\ result = Sym(<<MINUS, D1, LOWER_A, D2>>)

RECURSIVE DecimalValue(_, _)
\* the number the first k bytes of ds, all digits, spell
DecimalValue(ds, k) ==
    IF k = 0 THEN 0 ELSE DecimalValue(ds, k - 1) * 10 + (ds[k] - 48)

\* an optional sign followed by one or more digits
IsIntegerToken(t) ==
    LET ds == IF t # <<>> /\ t[1] \in {PLUS, MINUS} THEN Tail(t) ELSE t IN
    /\ ds # <<>>
    /\ \A k \in 1..Len(ds) : ds[k] \in Digits

SignedValue(t) ==
    LET ds == IF t[1] \in {PLUS, MINUS} THEN Tail(t) ELSE t
        n == DecimalValue(ds, Len(ds))
    IN IF t[1] = MINUS THEN -n ELSE n

C12_IntegerStep ==
    ReturnsFrom("Int")
        => /\ Returned.tag = "Int64"
           /\ IsIntegerToken(Top.v)
           /\ Returned.val = SignedValue(Top.v)

(* C12: read returns an Integer only for a token of an optional + or -
   followed by one or more digits, with the decimal value of the digits and
   that sign; a token with no digit, a lone + or -, is never an Integer. *)
C12_IntegerTokens == [][C12_IntegerStep]_vars

\* what the code does: a lone sign is the Integer 0, every other token as stated
C12_LoneSignIsZero ==
    [][ReturnsFrom("Int")
         => /\ Returned.tag = "Int64"
            /\ IF IsIntegerToken(Top.v) THEN Returned.val = SignedValue(Top.v)
               ELSE Top.v \in {<<PLUS>>, <<MINUS>>} /\ Returned.val = 0]_vars

\* streams in which a dot stands alone as a token
BareDotInputs == {
    <<DOT>>,
    <<DOT, SP>>,
    <<SP, DOT, NL>>,
    <<QUOTE, DOT>>,
    <<LPAREN, DOT, RPAREN>>,
    <<LPAREN, DOT, LPAREN>>,
    <<LPAREN, DOT, SP>>,
    <<LPAREN, DOT, TAB>>,
    <<LPAREN, D1, SP, DOT, RPAREN>>,
    <<LPAREN, D1, SP, DOT, LPAREN, RPAREN, RPAREN>>,
    <<LPAREN, D1, SP, DOT, SP, DOT, RPAREN>> }

RECURSIVE HasBareDot(_)
\* the Symbol . inside the value
HasBareDot(x) ==
    CASE x.tag = "Symbol" -> x.text = <<DOT>>
      [] x.tag = "Cons" -> HasBareDot(x.car) \/ HasBareDot(x.cdr)
      [] OTHER -> FALSE

C13_BareDotStep ==
    /\ (phase = 1 /\ input \in BareDotInputs) => pc' # "returned"
    /\ \A k \in (Len(rets) + 1)..Len(rets') : ~HasBareDot(rets'[k])
    /\ ((Reading("Symbol") \/ Reading("Int")) /\ Top.v = <<DOT>>
        /\ (Peek = None \/ Peek[1] \notin SymbolChars))
         => pc' = "panicked"
    /\ (Reading("MaybeDot") /\ Top.v = <<>> /\ Peek \in WhiteSpace)
         => pc' = "panicked"
    /\ (ReturnsFrom("Symbol") /\ Top.v[1] = DOT)
         => (Len(Top.v) >= 2 /\ Returned = Sym(Top.v))
    /\ (phase = 1 /\ input \in {<<DOT, DOT>>, <<DOT, LOWER_A>>, <<LPAREN, DOT, DOT, RPAREN>>})
         => pc' # "panicked"

(* C13: a dot standing alone as a token ends the read with an error in every
   position (top level, list element before ) or (, first in a list before a
   delimiter, after a quote, as a dotted tail); no value returned holds the
   Symbol . ; a token of a dot and further symbol-chars is a Symbol. *)
C13_BareDot == [][C13_BareDotStep]_vars

C13_Witness ==
    /\ phase = 1
    /\ input = <<LPAREN, D1, SP, DOT, RPAREN>>
    /\ pc = "panicked"
    /\ err = "Parse error: . is not a valid symbol."

C13_WitnessSymbol ==
    /\ phase = 1
    /\ input = <<LPAREN, DOT, DOT, RPAREN>>
    /\ pc = "returned"
    /\ result = Chain(<<Sym(<<DOT, DOT>>)>>, 1, Nil)

RECURSIVE PairText(_, _), RestText(_, _)
\* the text of a value whose Pairs are rendered as stated, every other object
\* as printer p renders it
PairText(p, x) ==
    IF x.tag = "Cons"
    THEN <<LPAREN>> \o PairText(p, x.car) \o RestText(p, x.cdr) \o <<RPAREN>>
    ELSE Render(p, x)

\* the rest chain: a space before each further element, then nothing for Nil
\* and space dot space before any other final object
RestText(p, r) ==
    CASE r.tag = "Cons" -> <<SP>> \o PairText(p, r.car) \o RestText(p, r.cdr)
      [] r.tag = "Nil" -> <<>>
      [] OTHER -> <<SP, DOT, SP>> \o Render(p, r)

(* C14: the printer renders a Pair as an opening parenthesis, the first
   element, each further element of the rest chain after one space, and then
   either the closing parenthesis when the final rest is Nil or space dot
   space, the final object and nothing else before the closing parenthesis;
   Pair(1, Pair(2, 3)) prints as (1 2 . 3). *)
C14_PairText ==
    phase = 2 => inp.stream = PairText(printer, first)

\* the same, for the printers of types.rs and main.rs alone
C14_PairTextDisplay ==
    (phase = 2 /\ printer # "printer.rs") => inp.stream = PairText(printer, first)

C15_SkipStep ==
    /\ (Reading("List") /\ Peek \in WhiteSpace)
         => (pc' = "reading" /\ stack' = stack)
    /\ (phase = 1 /\ input = <<LPAREN, D1, TAB, RPAREN>>)
         => /\ pc' # "panicked"
            /\ (pc' = "returned" => result' = Chain(<<Integer(1)>>, 1, Nil))

(* C15: in the List state a space, a tab and a newline are each skipped and
   leave the accumulator as it was, so a list with a tab before its closing
   parenthesis reads to the value of the list written with spaces; ( 1 tab )
   reads as the one-element list (1). *)
C15_ListSkipsSpace == [][C15_SkipStep]_vars

\* what the code does: space and newline are skipped, a tab starts a read
C15_ListSkipsSpaceNewline ==
    [][/\ (Reading("List") /\ Peek \in {Some(SP), Some(NL)})
            => (pc' = "reading" /\ stack' = stack)
       /\ (Reading("List") /\ Peek = Some(TAB))
            => (pc' = "reading" /\ Len(stack') = Len(stack) + 1)]_vars

\* Eof as the first or the rest of a Pair of the value
HasEofInside(x) == x.tag = "Cons" /\ HasEof(x)

(* C20: no value a read returns holds EndOfInput as the first or the rest of
   any Pair, whatever the stream, a stream that ends right after a quote or in
   the middle of a list included; EndOfInput is only the whole result. *)
C20_EofOnlyWhole ==
    [][\A k \in (Len(rets) + 1)..Len(rets') : ~HasEofInside(rets'[k])]_vars

\* what the code does: a quote at the end of the stream wraps EndOfInput
C20_EofOnlyAfterQuote ==
    [][\A k \in (Len(rets) + 1)..Len(rets') :
         HasEofInside(rets'[k])
            => /\ k > 1
               /\ HasEof(rets'[k - 1])
               /\ rets'[k] = make_list(<<new_symbol(QuoteText), rets'[k - 1], new_nil>>)]_vars

\* the bytes the Input has still to deliver: the outstanding ones, then the
\* stream from its position on
Rest(i) == Outstanding(i) \o SubSeq(i.stream, i.pos + 1, Len(i.stream))

Rest2(i) == Outstanding2(i) \o SubSeq(i.stream, i.pos + 1, Len(i.stream))

Delimiters == {SP, TAB, NL, LPAREN, RPAREN}

C16_DelimiterStep ==
    /\ ((ReturnsFrom("Int") \/ ReturnsFrom("Symbol"))
        /\ Peek # None /\ Peek[1] \in Delimiters)
         => /\ Rest(inp') = Rest(inp)
            /\ Input_get(inp').c = Peek
    /\ shape.kind = "seq"
         => /\ pc' # "panicked"
            /\ \A k \in 1..Len(reads') :
                 /\ k <= Len(shape.es) + 1
                 /\ reads'[k] = IF k <= Len(shape.es) THEN shape.es[k].val ELSE Eof
            /\ pc' = "exited" => Len(reads') = Len(shape.es) + 1

(* C16: when a delimiter ends an Integer or Symbol token it is pushed back:
   it is the next byte delivered after the read returns and nothing of the
   stream is lost; the successive reads of the loop of main return the values
   of the stream in order and then EndOfInput. *)
C16_SuccessiveReads == [][C16_DelimiterStep]_vars

C16_Witness ==
    /\ phase = 3
    /\ pc = "exited"
    /\ input = <<D1, TAB, LOWER_A, TAB, LPAREN, RPAREN, NL>>
    /\ reads = <<Integer(1), Sym(<<LOWER_A>>), Nil, Eof>>

\* the bytes the current call has still to get
Remaining == Len(Rest(inp))

\* the weight of the state of the innermost call
Weight ==
    LET st == Top.st IN
    IF Remaining = 0
    THEN (IF st \in {"None", "Int", "Symbol"} THEN 3 ELSE 2)
    ELSE CASE st = "MaybeDot" -> 12
           [] st \in {"Int", "Symbol"} -> 4
           [] st \in {"List", "ListEnd"} -> 3
           [] OTHER -> 1

\* a measure every step of a read lowers
Rank == 10 * Remaining + Weight

ReadStep ==
    \/ StepNone
    \/ StepList
    \/ StepMaybeDot
    \/ StepListEnd
    \/ StepInt
    \/ StepSymbol
    \/ StepString

C17_RankStep ==
    /\ pc = "reading" => (stack # <<>> /\ ENABLED ReadStep)
    /\ (pc = "reading" /\ pc' = "reading" /\ phase' = phase)
         => (Rank' < Rank /\ Rank' >= 0)
    /\ (pc = "reading" /\ phase' = phase) => Remaining' <= Remaining + 1
    /\ (pc = "reading" /\ Remaining' > Remaining) => Reading("MaybeDot")

(* C17: every call of read on a finite stream ends, with a value, EndOfInput
   or a fatal error: while a read is running a step is always possible, and
   every step lowers a non-negative measure of the bytes still to deliver and
   the state; only MaybeDot gives back more bytes than it takes, and the
   measure falls across it. *)
C17_Terminates == [][C17_RankStep]_vars

C17_Witness ==
    /\ phase = 1
    /\ input = <<LPAREN, D1, SP, DOT, DOT, SP, DOT, LOWER_A, DOT, RPAREN>>
    /\ pc = "returned"
    /\ Remaining = 0
    /\ result = Chain(<<Integer(1), Sym(<<DOT, DOT>>), Sym(<<DOT, LOWER_A, DOT>>)>>, 1, Nil)

\* the bytes has_pending answers for: the outstanding ones and what is left
\* of the chunk the BufReader holds
BufEnd(pos) ==
    IF pos \in (chunks \cup {0}) THEN pos
    ELSE CHOOSE e \in chunks : e > pos /\ \A f \in chunks : f > pos => e <= f

Pending == hout \o SubSeq(hsrc.stream, hfresh + 1, BufEnd(hfresh))

RECURSIVE LeadingSpaces(_, _)
\* the number of space bytes seq starts with, counted from position k
LeadingSpaces(seq, k) ==
    IF k <= Len(seq) /\ seq[k] = SP THEN 1 + LeadingSpaces(seq, k + 1) ELSE 0

C18_ClearStep ==
    (hops' = hops + 1 /\ hlast'.op = "clear")
        => LET k == LeadingSpaces(Pending, 1)
               stops == k < Len(Pending)
               n == IF stops /\ Pending[k + 1] = NL THEN k + 1 ELSE k
               left == SubSeq(Rest(hsrc), n + 1, Len(Rest(hsrc)))
           IN /\ hlast'.ok /\ hlast'.ok2
              /\ hlast'.err = "" /\ hlast'.err2 = ""
              /\ Rest(hsrc') = left
              /\ Rest2(hsrc2') = left
              /\ Outstanding2(hsrc2') = Outstanding(hsrc')
              /\ Len(Outstanding(hsrc')) <= PushbackCapacity
              /\ (stops /\ Pending[k + 1] # NL)
                   => /\ Input_get(hsrc').c = Some(Pending[k + 1])
                      /\ Input2_get(hsrc2').c = Some(Pending[k + 1])
                      /\ Outstanding(hsrc') # <<>>

(* C18: clear_pending_space discards the pending spaces and stops just after
   the first newline, which it takes, or just before the first other byte,
   which it pushes back so that it is delivered next; it takes only bytes
   that are pending, never gets None and never overflows the pushback.  Both
   Inputs (parser.rs, input.rs). *)
C18_ClearPending == [][C18_ClearStep]_vars

\* a get, then a clear that takes the newline left in the chunk
C18_Witness ==
    /\ hlast.op = "clear"
    /\ hsrc.stream = <<LOWER_A, NL>>
    /\ chunks = {2}
    /\ hops = 2
    /\ Outstanding(hsrc) = <<>>
    /\ hsrc.pos = 2

\* two pushes, then a clear that drops the space and pushes the other byte back
C18_WitnessPushback ==
    /\ hlast.op = "clear"
    /\ hsrc.stream = <<>>
    /\ hops = 3
    /\ Outstanding(hsrc) = <<LOWER_B>>

(* C19: through the reads of the loop of main and the clear_pending_space
   between them, for every stream, push never panics; at most two bytes are
   outstanding, at most one when a top-level read has returned, and two only
   right after the MaybeDot unwind, when the read it calls has not yet taken
   a byte. *)
C19_PushbackBound ==
    /\ err # PushPanic
    /\ Len(Outstanding(inp)) <= PushbackCapacity
    /\ pc \in {"returned", "exited"} => Len(Outstanding(inp)) <= 1
    /\ Len(Outstanding(inp)) = 2
         => /\ pc = "reading"
            /\ Len(stack) >= 2
            /\ Top = NewFrame
            /\ stack[Len(stack) - 1].st = "DotUnwind"
            /\ Outstanding(inp)[1] = DOT

C19_Witness ==
    /\ phase = 3
    /\ Len(reads) = 1
    /\ pc = "reading"
    /\ Len(Outstanding(inp)) = 2
    /\ Len(stack) = 2
    /\ stack[1].st = "DotUnwind"

\* the least and the greatest value of an i64 of IntWidth bits
IntMin == -(2 ^ (IntWidth - 1))
IntMax == 2 ^ (IntWidth - 1) - 1

\* an integer literal whose value the integer type holds
C21_Literal ==
    /\ phase = 4
    /\ IsIntegerToken(input)
    /\ SignedValue(input) >= IntMin
    /\ SignedValue(input) <= IntMax

(* C21: for every integer literal whose decimal value lies in the range of
   the signed integer type, make_int returns exactly that value and no step
   of its arithmetic overflows; stated at a width of IntWidth bits, with the
   range from -2^(IntWidth-1) to 2^(IntWidth-1) - 1. *)
C21_ExactInRange ==
    (C21_Literal /\ pc # "making")
        => /\ pc = "returned"
           /\ result = Integer(SignedValue(input))

\* what the code does: exact and free of overflow for every literal of the
\* range but the least value, whose digits alone overflow before the negation
C21_ExactButLeast ==
    (C21_Literal /\ pc # "making")
        => IF SignedValue(input) = IntMin /\ input[1] = MINUS
           THEN \/ pc = "panicked" /\ err = "arithmetic overflow"
                \/ pc = "returned" /\ result = Integer(IntMin)
           ELSE pc = "returned" /\ result = Integer(SignedValue(input))

====
